---- MODULE Spec2Model ----
(***************************************************************************)
(* Sentinel-AI-AutoTriage: the triage pass (auto_triage.run_triage), the   *)
(* model client (llm_client.LLMClient.analyse_incident), the incident      *)
(* store helpers (sentinel_client.list_active_incidents and                *)
(* update_incident_status) and IncidentSummary.as_prompt (models.py).      *)
(*                                                                         *)
(* The pass is modelled from the listing on (configuration and both        *)
(* clients were initialised); each network call is one step, so that       *)
(* another actor's changes to the store can fall between any two of them.  *)
(*                                                                         *)
(* Python str values are sequences of one-character strings, so that       *)
(* lower(), startswith(), strip() and f-string concatenation are computed  *)
(* and not assumed.  Python None is NoneStr where a str is expected and    *)
(* NoneObj where an object is expected.                                    *)
(***************************************************************************)
EXTENDS Integers, Sequences, FiniteSets, TLC

VARIABLES
    store,      \* the incident store: incident id -> Incident record or NoneObj (no such incident)
    pc,         \* position of run_triage: "start", "loop", "get", "write", "done", "raised"
    run,        \* "first" or "second" invocation of run_triage
    incidents,  \* run_triage's local list `incidents` (the listed snapshot)
    idx,        \* number of incidents of `incidents` whose loop body has been entered
    summary,    \* the IncidentSummary of the current iteration
    result,     \* the dict analyse_incident returned in the current iteration
    llmFailed,  \* whether the provider call of the current iteration raised
    call,       \* arguments of the update_incident_status call of the current iteration (NoCall: none)
    current,    \* update_incident_status's local `current`
    opLog,      \* store operations issued by the update_incident_status call of the current iteration
    llmCalls,   \* ids for which analyse_incident was invoked in this run, in order
    updCalls,   \* update_incident_status calls made in this run, in order: <<id, status>>
    extCount,   \* number of modifications made by actors other than the pass
    faults,     \* whether a store operation of this run failed (raised, or found nothing)
    history,    \* what the first run did, kept for comparing the second run with it
    input,      \* argument of the pure function under check (policy and prompt specifications)
    output      \* its result

vars == <<store, pc, run, incidents, idx, summary, result, llmFailed, call, current,
          opLog, llmCalls, updCalls, extCount, faults, history, input, output>>

passVars == <<store, pc, run, incidents, idx, summary, result, llmFailed, call, current,
              opLog, llmCalls, updCalls, extCount, faults, history>>

-----------------------------------------------------------------------------
(* Bounds of the model *)

\* number of incidents in the store
NumIncidents == 2

\* modifications by external actors during the behaviour
MaxExternal == 1

\* longest enumerated recommended_status text
MaxTextLen == 4

\* longest enumerated title / description of an IncidentSummary
MaxFieldLen == 2

Ids == 1..NumIncidents

-----------------------------------------------------------------------------
(* Python values *)

NoneStr == <<"None">>
NoneObj == [none |-> TRUE]
EmptyStr == <<>>

\* Python truthiness of an Optional[str]
Truthy(v) == v # NoneStr /\ v # EmptyStr

\* `a or b` on Optional[str]
OrElse(a, b) == IF Truthy(a) THEN a ELSE b

UpperChars == <<"A","B","C","D","E","F","G","H","I","J","K","L","M",
                "N","O","P","Q","R","S","T","U","V","W","X","Y","Z">>
LowerChars == <<"a","b","c","d","e","f","g","h","i","j","k","l","m",
                "n","o","p","q","r","s","t","u","v","w","x","y","z">>

LowerChar(c) ==
    IF \E i \in 1..Len(UpperChars) : UpperChars[i] = c
    THEN LowerChars[CHOOSE i \in 1..Len(UpperChars) : UpperChars[i] = c]
    ELSE c

\* str.lower()
Lower(s) == [i \in 1..Len(s) |-> LowerChar(s[i])]

\* str.startswith(prefix)
StartsWith(s, prefix) ==
    /\ Len(s) >= Len(prefix)
    /\ SubSeq(s, 1, Len(prefix)) = prefix

Whitespace == {" ", "\t", "\n", "\r"}

RECURSIVE LStrip(_)
LStrip(s) == IF s # <<>> /\ Head(s) \in Whitespace THEN LStrip(Tail(s)) ELSE s

RECURSIVE RStrip(_)
RStrip(s) ==
    IF s # <<>> /\ s[Len(s)] \in Whitespace THEN RStrip(SubSeq(s, 1, Len(s) - 1)) ELSE s

\* str.strip()
Strip(s) == RStrip(LStrip(s))

-----------------------------------------------------------------------------
(* String literals of the source *)

ActiveText == <<"A","c","t","i","v","e">>
UnspecifiedText == <<"U","n","s","p","e","c","i","f","i","e","d">>
FailedComment ==
    <<"L","L","M"," ","a","n","a","l","y","s","i","s"," ","f","a","i","l","e","d",";"," ",
      "l","e","a","v","i","n","g"," ","i","n","c","i","d","e","n","t"," ","o","p","e","n",".">>
NoTitle == <<"(","n","o"," ","t","i","t","l","e",")">>
NoDescription == <<"(","n","o"," ","d","e","s","c","r","i","p","t","i","o","n",")">>
UnknownText == <<"U","n","k","n","o","w","n">>
ClosPrefix == <<"c","l","o","s">>
NewPrefix == <<"n","e","w">>

\* azure.mgmt.securityinsight.models.IncidentStatus
\* (NEW is a reserved word of TLA+, hence the S_ prefix)
S_NEW == "New"
S_ACTIVE == "Active"
S_CLOSED == "Closed"
IncidentStatus == {S_NEW, S_ACTIVE, S_CLOSED}
\* properties.status is None
S_NONE == "None"

\* IncidentStatus.<member>.name
StatusName(s) ==
    CASE s = S_NEW -> <<"N","E","W">>
      [] s = S_ACTIVE -> <<"A","C","T","I","V","E">>
      [] s = S_CLOSED -> <<"C","L","O","S","E","D">>

-----------------------------------------------------------------------------
(* models.py *)

\* Mutant of as_prompt: the separator after the title lacks its space.
as_prompt_NoSpace(self) ==
    <<"[">> \o self.severity \o <<"]", " ">> \o self.title \o <<":">> \o self.description

\* IncidentSummary.as_prompt: f"[{self.severity}] {self.title}: {self.description}"
as_prompt(self) ==
    <<"[">> \o self.severity \o <<"]", " ">> \o self.title \o <<":", " ">> \o self.description

-----------------------------------------------------------------------------
(* llm_client.py *)

\* Mutant of FailureRecommendation: the classification is left empty, as in the try branch.
FailureRecommendation_EmptyClass ==
    [recommended_status |-> ActiveText,
     classification |-> EmptyStr,
     comment |-> FailedComment]

\* The except branch of analyse_incident: the safe default.
FailureRecommendation ==
    [recommended_status |-> ActiveText,
     classification |-> UnspecifiedText,
     comment |-> FailedComment]

\* Mutant of ParsedRecommendation: the status is taken from the reply.
ParsedRecommendation_FromReply(content) ==
    [recommended_status |-> Strip(content),
     classification |-> EmptyStr,
     comment |-> Strip(content)]

\* The try branch of analyse_incident once the provider has answered with
\* `content`: the parsing is a stub, recommended_status is the literal "Active".
ParsedRecommendation(content) ==
    [recommended_status |-> ActiveText,
     classification |-> EmptyStr,
     comment |-> Strip(content)]

\* Whether the try block raises: the provider call raises, or reading the
\* response does (content None has no strip()).
TryRaises(provider) == provider.raises \/ provider.content = NoneStr

\* LLMClient.analyse_incident.  `provider` is what the provider does with the
\* prompt: raise, or answer with a content.  The result is the returned dict
\* and whether an exception escapes the method.
analyse_incident(incident_title, incident_description, provider) ==
    IF TryRaises(provider)
    THEN [exc |-> FALSE, value |-> FailureRecommendation]
    ELSE [exc |-> FALSE, value |-> ParsedRecommendation(provider.content)]

-----------------------------------------------------------------------------
(* auto_triage.py *)

\* The IncidentSummary built at the top of the loop body.
MakeSummary(inc) ==
    LET props == inc.properties IN
    [id |-> inc.name,
     title |-> OrElse(props.title, NoTitle),
     description |-> OrElse(props.description, NoDescription),
     severity |-> IF props.severity # NoneStr THEN props.severity ELSE UnknownText,
     status |-> IF props.status # S_NONE THEN StatusName(props.status) ELSE UnknownText]

\* `result.get("classification") or None`, `result.get("comment") or None`
OrNone(v) == IF Truthy(v) THEN v ELSE NoneStr

\* Mutant of MapStatus: the prefixes are matched case-sensitively.
MapStatus_CaseSensitive(recommended_status) ==
    IF StartsWith(recommended_status, ClosPrefix) THEN S_CLOSED
    ELSE IF StartsWith(recommended_status, NewPrefix) THEN S_NEW
    ELSE S_ACTIVE

\* Map recommended status string to IncidentStatus enum
MapStatus(recommended_status) ==
    IF StartsWith(Lower(recommended_status), ClosPrefix) THEN S_CLOSED
    ELSE IF StartsWith(Lower(recommended_status), NewPrefix) THEN S_NEW
    ELSE S_ACTIVE

\* Mutant of NeedsUpdate: the update is made whatever the current status.
NeedsUpdate_Always(status_enum, props_status) == TRUE

\* `if status_enum != props.status:` -- update, else no-op
NeedsUpdate(status_enum, props_status) == status_enum # props_status

-----------------------------------------------------------------------------
(* sentinel_client.py *)

\* Mutant of IsActiveIncident: the status is not filtered.
IsActiveIncident_AnyStatus(incident) == incident.properties # NoneObj

\* The filter of list_active_incidents
IsActiveIncident(incident) ==
    /\ incident.properties # NoneObj
    /\ incident.properties.status \in {S_NEW, S_ACTIVE}

RECURSIVE ListFrom(_, _)
\* The incidents of store `st` with id >= i that pass the filter, in pager order.
ListFrom(st, i) ==
    IF i > NumIncidents THEN <<>>
    ELSE IF st[i] # NoneObj /\ IsActiveIncident(st[i])
         THEN <<st[i]>> \o ListFrom(st, i + 1)
         ELSE ListFrom(st, i + 1)

\* list_active_incidents: the filtered list, or [] when the listing raises.
list_active_incidents(st, raises) == IF raises THEN <<>> ELSE ListFrom(st, 1)

\* Mutant of CurrentAfterGet: an incident the store no longer has is replaced
\* by the listed snapshot.
CurrentAfterGet_Fallback(fetched, incident) ==
    IF fetched = NoneObj THEN incident ELSE fetched

\* update_incident_status, after the get returned `fetched`: the value of `current`.
CurrentAfterGet(fetched, incident) == fetched

\* `if not current: ... return`
ReturnsNotFound(cur) == cur = NoneObj

\* Mutant of Modified: classification and comment are assigned unconditionally.
Modified_Unconditional(cur, status, classification, comment) ==
    [cur EXCEPT
        !.properties.status = status,
        !.properties.classification = classification,
        !.properties.classification_comment = comment]

\* Modify status and classification
Modified(cur, status, classification, comment) ==
    [cur EXCEPT
        !.properties.status = status,
        !.properties.classification =
            IF Truthy(classification) THEN classification ELSE @,
        !.properties.classification_comment =
            IF Truthy(comment) THEN comment ELSE @]

\* Mutant of AfterStoreError: the exception is logged and raised again.
AfterStoreError_Reraise == "raised"

\* `except Exception as exc: logger.error(...)`: the exception is logged and
\* swallowed, control returns to the caller's loop.
AfterStoreError == "loop"

-----------------------------------------------------------------------------
(* The environment: what the store holds and what the provider answers *)

TitleText == <<"L","o","g","i","n">>
DescriptionText == <<"F","a","i","l","e","d">>
HighName == <<"H","I","G","H">>
TruePositiveText == <<"T","r","u","e","P","o","s","i","t","i","v","e">>
OldComment == <<"o","l","d">>

\* IncidentProperties with every optional field set and no classification yet
FullProps(status) ==
    [title |-> TitleText, description |-> DescriptionText, severity |-> HighName,
     status |-> status, classification |-> NoneStr, classification_comment |-> NoneStr]

\* IncidentProperties with the optional texts absent and a classification set by an analyst
SparseProps(status) ==
    [title |-> NoneStr, description |-> EmptyStr, severity |-> NoneStr,
     status |-> status, classification |-> TruePositiveText,
     classification_comment |-> OldComment]

PropsKinds ==
    {FullProps(S_NEW), SparseProps(S_NEW), SparseProps(S_ACTIVE), FullProps(S_CLOSED), NoneObj}

\* What the provider may do with a prompt: raise, answer with an empty
\* content, or answer with a text.
ClosedReply == <<" ","C","l","o","s","e","d","\n">>
ProviderOutcomes ==
    {[raises |-> TRUE, content |-> NoneStr]}
        \cup {[raises |-> FALSE, content |-> c] : c \in {EmptyStr, ClosedReply}}

-----------------------------------------------------------------------------
(* The triage pass as a state machine *)

NoCall == [incident |-> NoneObj, status |-> S_NONE, classification |-> NoneStr,
           comment |-> NoneStr]

\* The locals of a run before its first step
FreshLocals ==
    /\ incidents = <<>>
    /\ idx = 0
    /\ summary = NoneObj
    /\ result = NoneObj
    /\ llmFailed = FALSE
    /\ call = NoCall
    /\ current = NoneObj
    /\ opLog = <<>>
    /\ llmCalls = <<>>
    /\ updCalls = <<>>
    /\ faults = FALSE

PassInit ==
    /\ \E k \in [Ids -> PropsKinds] :
          store = [i \in Ids |-> [name |-> i, properties |-> k[i]]]
    /\ pc = "start"
    /\ run = "first"
    /\ FreshLocals
    /\ extCount = 0
    /\ history = NoneObj

PureIdle == input = NoneObj /\ output = NoneObj

Init == PassInit /\ PureIdle

\* incidents = list_active_incidents(sentinel_client, config)
ListIncidents ==
    /\ pc = "start"
    /\ \E raises \in BOOLEAN :
          /\ incidents' = list_active_incidents(store, raises)
          /\ faults' = raises
    /\ pc' = "loop"
    /\ UNCHANGED <<store, run, idx, summary, result, llmFailed, call, current, opLog,
                   llmCalls, updCalls, extCount, history, input, output>>

\* One iteration of `for inc in incidents:` up to the decision
Iterate ==
    /\ pc = "loop"
    /\ idx < Len(incidents)
    /\ \E provider \in ProviderOutcomes :
          LET inc == incidents[idx + 1]
              props == inc.properties
              s == MakeSummary(inc)
              r == analyse_incident(s.title, s.description, provider)
          IN  /\ summary' = s
              /\ idx' = idx + 1
              /\ llmFailed' = TryRaises(provider)
              /\ llmCalls' = Append(llmCalls, [id |-> s.id, result |-> r.value])
              /\ IF r.exc
                 THEN /\ pc' = "raised"
                      /\ UNCHANGED <<result, call, current, opLog, updCalls>>
                 ELSE LET recommended_status == r.value.recommended_status
                          classification == OrNone(r.value.classification)
                          comment == OrNone(r.value.comment)
                          status_enum == MapStatus(recommended_status)
                      IN  /\ result' = r.value
                          /\ IF NeedsUpdate(status_enum, props.status)
                             THEN /\ pc' = "get"
                                  /\ call' = [incident |-> inc, status |-> status_enum,
                                              classification |-> classification,
                                              comment |-> comment]
                                  /\ current' = NoneObj
                                  /\ opLog' = <<>>
                                  /\ updCalls' = Append(updCalls,
                                         [id |-> inc.name, status |-> status_enum])
                             ELSE /\ pc' = "loop"
                                  /\ call' = NoCall
                                  /\ current' = NoneObj
                                  /\ opLog' = <<>>
                                  /\ UNCHANGED updCalls
    /\ UNCHANGED <<store, run, incidents, extCount, faults, history, input, output>>

\* update_incident_status: current = client.incidents.get(incident_id=incident.name)
Get ==
    /\ pc = "get"
    /\ \E raises \in BOOLEAN :
          IF raises
          THEN /\ opLog' = Append(opLog, [op |-> "get", id |-> call.incident.name,
                                          res |-> "raise", rec |-> NoneObj])
               /\ pc' = AfterStoreError
               /\ faults' = TRUE
               /\ UNCHANGED current
          ELSE LET fetched == store[call.incident.name]
                   cur == CurrentAfterGet(fetched, call.incident)
               IN  /\ opLog' = Append(opLog, [op |-> "get", id |-> call.incident.name,
                                    res |-> IF fetched = NoneObj THEN "absent" ELSE "found",
                                    rec |-> fetched])
                   /\ current' = cur
                   /\ pc' = IF ReturnsNotFound(cur) THEN "loop" ELSE "write"
                   /\ faults' = (faults \/ fetched = NoneObj)
    /\ UNCHANGED <<store, run, incidents, idx, summary, result, llmFailed, call,
                   llmCalls, updCalls, extCount, history, input, output>>

\* update_incident_status: modify `current`, then
\* client.incidents.create_or_update(incident_id=current.name, incident=current).
\* A record without properties makes the assignment raise AttributeError,
\* which the except clause catches before any store operation.
Write ==
    /\ pc = "write"
    /\ IF current.properties = NoneObj
       THEN /\ pc' = AfterStoreError
            /\ faults' = TRUE
            /\ UNCHANGED <<store, current, opLog>>
       ELSE \E raises \in BOOLEAN :
              LET modified == Modified(current, call.status, call.classification, call.comment)
              IN  /\ current' = modified
                  /\ opLog' = Append(opLog, [op |-> "create_or_update", id |-> modified.name,
                                            res |-> IF raises THEN "raise" ELSE "ok",
                                            rec |-> modified])
                  /\ store' = IF raises THEN store
                              ELSE [store EXCEPT ![modified.name] = modified]
                  /\ pc' = IF raises THEN AfterStoreError ELSE "loop"
                  /\ faults' = (faults \/ raises)
    /\ UNCHANGED <<run, incidents, idx, summary, result, llmFailed, call,
                   llmCalls, updCalls, extCount, history, input, output>>

\* The for loop is exhausted: run_triage returns.
Return ==
    /\ pc = "loop"
    /\ idx = Len(incidents)
    /\ pc' = "done"
    /\ history' = IF run = "first"
                  THEN [store |-> store, updated |-> {updCalls[i].id : i \in 1..Len(updCalls)},
                        recs |-> llmCalls, faults |-> faults]
                  ELSE history
    /\ UNCHANGED <<store, run, incidents, idx, summary, result, llmFailed, call, current,
                   opLog, llmCalls, updCalls, extCount, faults, input, output>>

\* run_triage is invoked again (the next scheduled pass).  The second pass is
\* modelled after a first pass that no store failure and no other actor
\* disturbed: after any other first pass, the second pass is one more first
\* pass, from the store the first one left.
SecondRun ==
    /\ pc = "done"
    /\ run = "first"
    /\ extCount = 0
    /\ ~faults
    /\ run' = "second"
    /\ pc' = "start"
    /\ incidents' = <<>>
    /\ idx' = 0
    /\ summary' = NoneObj
    /\ result' = NoneObj
    /\ llmFailed' = FALSE
    /\ call' = NoCall
    /\ current' = NoneObj
    /\ opLog' = <<>>
    /\ llmCalls' = <<>>
    /\ updCalls' = <<>>
    /\ faults' = FALSE
    /\ UNCHANGED <<store, extCount, history, input, output>>

\* The listed incidents the pass has still to read from the store: the one
\* whose update is in progress and those whose iteration has not begun.
Pending ==
    {incidents[k].name : k \in (IF pc \in {"get", "write"} THEN idx ELSE idx + 1)..Len(incidents)}

\* Another actor (an analyst, another tool) closes an incident or deletes it
\* while the pass runs.  Only changes to incidents the pass has still to read
\* are modelled: the others change nothing the pass sees.
External ==
    /\ extCount < MaxExternal
    /\ run = "first"
    /\ pc \in {"loop", "get", "write"}
    /\ \E i \in Pending :
          /\ store[i] # NoneObj
          /\ \/ store' = [store EXCEPT ![i] = NoneObj]
             \/ /\ store[i].properties.status # S_CLOSED
                /\ store' = [store EXCEPT ![i].properties.status = S_CLOSED]
    /\ extCount' = extCount + 1
    /\ UNCHANGED <<pc, run, incidents, idx, summary, result, llmFailed, call, current,
                   opLog, llmCalls, updCalls, faults, history, input, output>>

Next ==
    \/ ListIncidents
    \/ Iterate
    \/ Get
    \/ Write
    \/ Return
    \/ SecondRun
    \/ External

Spec == Init /\ [][Next]_vars

-----------------------------------------------------------------------------
(* The decision policy of run_triage on enumerated recommended_status texts *)

BoundedSeq(S, n) == UNION {[1..k -> S] : k \in 0..n}

PolicyChars == {"c", "C", "l", "o", "O", "s", "n", "N", "e", "w"}

ClosedBenignText ==
    <<"C","l","o","s","e","d"," ","d","u","e"," ","t","o"," ",
      "b","e","n","i","g","n"," ","a","c","t","i","v","i","t","y">>

NamedTexts ==
    {ActiveText, <<"a","c","t","i","v","e">>, <<"A","C","T","I","V","E">>, <<"a","C","t","I","v","E">>,
     UnknownText, ClosedBenignText, <<"N","e","w">>, <<"N","E","W","S">>, <<" ","n","e","w">>}

Texts == BoundedSeq(PolicyChars, MaxTextLen) \cup NamedTexts

\* The pass is not running in the specifications of the pure functions.
PassIdle ==
    /\ store = [i \in Ids |-> [name |-> i, properties |-> NoneObj]]
    /\ pc = "start"
    /\ run = "first"
    /\ FreshLocals
    /\ extCount = 0
    /\ history = NoneObj

InitPolicy ==
    /\ PassIdle
    /\ input \in [status : {S_NEW, S_ACTIVE}, text : Texts]
    /\ output = NoneObj

\* The decision of the loop body on (props.status, recommended_status)
Decide ==
    /\ output = NoneObj
    /\ LET status_enum == MapStatus(input.text)
       IN  output' = [mapped |-> status_enum,
                      action |-> IF NeedsUpdate(status_enum, input.status)
                                 THEN "update" ELSE "no-op"]
    /\ UNCHANGED input
    /\ UNCHANGED passVars

SpecPolicy == InitPolicy /\ [][Decide]_vars

-----------------------------------------------------------------------------
(* IncidentSummary.as_prompt on enumerated summaries *)

FieldChars == {"a", ":", " "}

HighText == <<"H","i","g","h">>

TestSummary ==
    [id |-> <<"1">>,
     title |-> <<"T","e","s","t"," ","I","n","c","i","d","e","n","t">>,
     description |-> <<"T","h","i","s"," ","i","s"," ","a"," ","t","e","s","t"," ",
                       "i","n","c","i","d","e","n","t">>,
     severity |-> HighText,
     status |-> ActiveText]

\* The string test_incident_summary_as_prompt expects
TestExpected ==
    <<"[","H","i","g","h","]"," ","T","e","s","t"," ","I","n","c","i","d","e","n","t",":"," ",
      "T","h","i","s"," ","i","s"," ","a"," ","t","e","s","t"," ","i","n","c","i","d","e","n","t">>

SummaryIds == {<<"1">>, <<"2">>}
SummaryStatuses == {ActiveText, UnknownText}

Summaries ==
    [id : SummaryIds,
     title : BoundedSeq(FieldChars, MaxFieldLen),
     description : BoundedSeq(FieldChars, MaxFieldLen),
     severity : {HighText, UnknownText, EmptyStr},
     status : SummaryStatuses] \cup {TestSummary}

InitPrompt ==
    /\ PassIdle
    /\ input \in Summaries
    /\ output = NoneStr

\* incident.as_prompt()
CallAsPrompt ==
    /\ output = NoneStr
    /\ output' = as_prompt(input)
    /\ UNCHANGED input
    /\ UNCHANGED passVars

SpecPrompt == InitPrompt /\ [][CallAsPrompt]_vars

-----------------------------------------------------------------------------
(* Claims *)

\* The last store operation of the current update_incident_status call is a
\* create_or_update (it then follows the call's get).
WriteIssued == Len(opLog) = 2 /\ opLog[2].op = "create_or_update"

\* C1: whenever the provider call of analyse_incident fails, no exception
\* escapes and the returned recommendation is recommended_status "Active",
\* classification "Unspecified" and a non-empty comment, whatever the title
\* and the description.
C1_FailSafeRecommendation ==
    /\ pc # "raised"
    /\ (idx > 0 /\ llmFailed) =>
          /\ result # NoneObj
          /\ result.recommended_status = ActiveText
          /\ result.classification = UnspecifiedText
          /\ result.comment # EmptyStr
          /\ result.comment # NoneStr

C1_Witness ==
    /\ idx > 0
    /\ llmFailed
    /\ summary.title = NoTitle
    /\ summary.description = NoDescription
    /\ result = [recommended_status |-> ActiveText, classification |-> UnspecifiedText,
                 comment |-> FailedComment]

\* C2 (as claimed): when the model invocation failed for an incident, the
\* write the pass issues for it neither sets its status to Closed nor changes
\* its classification.
C2_NoCloseNoReclassifyOnFailure ==
    (llmFailed /\ WriteIssued) =>
        /\ opLog[2].rec.properties.status # S_CLOSED
        /\ opLog[2].rec.properties.classification = opLog[1].rec.properties.classification

\* C3: the decision is a function of (listed status, recommended_status text):
\* the text maps to Closed when it begins with "clos" in any casing, else to
\* New when it begins with "new" in any casing, else to Active; the action is
\* update exactly when the mapped status differs from the listed one and
\* no-op exactly when they are equal.
C3_DecisionPolicy ==
    output # NoneObj =>
        LET t == input.text
            clos == /\ Len(t) >= 4
                    /\ t[1] \in {"c", "C"}
                    /\ t[2] \in {"l", "L"}
                    /\ t[3] \in {"o", "O"}
                    /\ t[4] \in {"s", "S"}
            new == /\ Len(t) >= 3
                   /\ t[1] \in {"n", "N"}
                   /\ t[2] \in {"e", "E"}
                   /\ t[3] \in {"w", "W"}
            expected == IF clos THEN S_CLOSED ELSE IF new THEN S_NEW ELSE S_ACTIVE
        IN  /\ output.mapped = expected
            /\ output.action \in {"update", "no-op"}
            /\ output.action = "update" <=> expected # input.status
            /\ output.action = "no-op" <=> expected = input.status

C3_Witness ==
    /\ output # NoneObj
    /\ input = [status |-> S_ACTIVE, text |-> <<"C", "l", "O", "s">>]
    /\ output = [mapped |-> S_CLOSED, action |-> "update"]

IsListedNew(inc) == inc.properties.status = S_NEW

C5_FailuresNeverAbort ==
    /\ pc # "raised"
    /\ idx <= Len(incidents)
    /\ Len(llmCalls) = idx
    /\ \A k \in 1..idx : llmCalls[k].id = incidents[k].name
    /\ pc = "done" => idx = Len(incidents)
    /\ pc # "done" => ENABLED (ListIncidents \/ Iterate \/ Get \/ Write \/ Return)

C5_Witness ==
    /\ pc = "done"
    /\ Len(incidents) = 2
    /\ faults
    /\ updCalls = <<[id |-> incidents[1].name, status |-> S_ACTIVE]>>
    /\ Len(llmCalls) = 2
    /\ llmCalls[1].result = FailureRecommendation

\* C6: update_incident_status is read-modify-write: a create_or_update is
\* immediately preceded, in the same call, by a get of the same id that
\* found a record; after a get that found nothing or raised the call issues
\* no further store operation and returns normally.
C6_ReadModifyWrite ==
    /\ Len(opLog) <= 2
    /\ \A k \in 1..Len(opLog) :
          /\ opLog[k].op = "create_or_update" =>
                /\ k > 1
                /\ opLog[k - 1].op = "get"
                /\ opLog[k - 1].res = "found"
                /\ opLog[k - 1].id = opLog[k].id
                /\ opLog[k - 1].id = call.incident.name
          /\ (opLog[k].op = "get" /\ opLog[k].res \in {"absent", "raise"}) =>
                /\ k = Len(opLog)
                /\ pc \in {"loop", "done"}

C6_Witness ==
    /\ Len(opLog) = 1
    /\ opLog[1].op = "get"
    /\ opLog[1].res = "absent"
    /\ pc = "loop"

\* C7: the record submitted equals the record just re-fetched except that
\* status is the target status, classification is replaced only by a
\* non-empty supplied one and classification_comment only by a non-empty
\* supplied one; an empty classification or comment of the recommendation
\* overwrites nothing.
C7_SubmittedRecordFrame ==
    WriteIssued =>
        LET fetched == opLog[1].rec
            submitted == opLog[2].rec
        IN  /\ submitted.name = fetched.name
            /\ DOMAIN submitted = DOMAIN fetched
            /\ DOMAIN submitted.properties = DOMAIN fetched.properties
            /\ submitted.properties.title = fetched.properties.title
            /\ submitted.properties.description = fetched.properties.description
            /\ submitted.properties.severity = fetched.properties.severity
            /\ submitted.properties.status = call.status
            /\ submitted.properties.classification =
                  IF call.classification \notin {NoneStr, EmptyStr}
                  THEN call.classification ELSE fetched.properties.classification
            /\ submitted.properties.classification_comment =
                  IF call.comment \notin {NoneStr, EmptyStr}
                  THEN call.comment ELSE fetched.properties.classification_comment
            /\ result.classification = EmptyStr =>
                  submitted.properties.classification = fetched.properties.classification
            /\ result.comment = EmptyStr =>
                  submitted.properties.classification_comment =
                      fetched.properties.classification_comment

C7_Witness ==
    /\ WriteIssued
    /\ opLog[2].res = "ok"
    /\ result.classification = EmptyStr
    /\ result.comment = EmptyStr
    /\ opLog[1].rec.properties.classification = TruePositiveText
    /\ opLog[2].rec.properties.classification_comment = OldComment
    /\ store[opLog[2].id] = opLog[2].rec

\* The provider gave, for every incident the second run has processed, the
\* recommendation it gave for it in the first run.
SameRecommendations ==
    \A k \in 1..Len(llmCalls) : \A j \in 1..Len(history.recs) :
        history.recs[j].id = llmCalls[k].id => history.recs[j].result = llmCalls[k].result

\* C8: in a second run after a first one, with no external change, store
\* operations succeeding and the same recommendations, no incident the first
\* run updated is updated again, and the store after the second run is the
\* store after the first.
C8_SecondRunIsNoOp ==
    (run = "second" /\ extCount = 0 /\ ~history.faults /\ ~faults /\ SameRecommendations) =>
        /\ \A k \in 1..Len(updCalls) : updCalls[k].id \notin history.updated
        /\ pc = "done" => store = history.store

C8_Witness ==
    /\ run = "second"
    /\ pc = "done"
    /\ extCount = 0
    /\ ~history.faults
    /\ ~faults
    /\ SameRecommendations
    /\ Cardinality(history.updated) = 2
    /\ Len(llmCalls) = 2
    /\ updCalls = <<>>
    /\ store = history.store

\* C9: as_prompt() is "[" + severity + "] " + title + ": " + description,
\* whatever the id and the status, and on the summary of the repository's
\* test it is the string the test expects.
C9_AsPromptFormat ==
    output # NoneStr =>
        LET sev == Len(input.severity)
            tit == Len(input.title)
            des == Len(input.description)
        IN  /\ Len(output) = sev + tit + des + 5
            /\ output[1] = "["
            /\ SubSeq(output, 2, sev + 1) = input.severity
            /\ output[sev + 2] = "]"
            /\ output[sev + 3] = " "
            /\ SubSeq(output, sev + 4, sev + tit + 3) = input.title
            /\ output[sev + tit + 4] = ":"
            /\ output[sev + tit + 5] = " "
            /\ SubSeq(output, sev + tit + 6, sev + tit + des + 5) = input.description
            /\ \A i \in SummaryIds : \A st \in SummaryStatuses :
                  as_prompt([input EXCEPT !.id = i, !.status = st]) = output
            /\ input = TestSummary => output = TestExpected

C9_Witness ==
    /\ input = TestSummary
    /\ output = TestExpected

\* C10 (as claimed): the pass never issues a write for an incident whose
\* status in the store at re-fetch time is Closed.
C10_NoWriteOverClosed ==
    WriteIssued => opLog[1].rec.properties.status # S_CLOSED

\* C10 (amended): the pass acts only on incidents whose status was New or
\* Active in the listing: every listed incident has such a status and every
\* write is for the listed incident of the current iteration; the status
\* found at re-fetch time is not consulted and is overwritten by the target.
C10_WritesOnlyForListedActive ==
    /\ \A k \in 1..Len(incidents) : incidents[k].properties.status \in {S_NEW, S_ACTIVE}
    /\ WriteIssued =>
          /\ idx >= 1
          /\ opLog[2].id = incidents[idx].name
          /\ incidents[idx].properties.status \in {S_NEW, S_ACTIVE}
          /\ opLog[2].rec.properties.status = call.status

C10_Witness ==
    /\ WriteIssued
    /\ opLog[2].res = "ok"
    /\ opLog[1].rec.properties.status = S_CLOSED
    /\ incidents[idx].properties.status = S_NEW
    /\ store[opLog[2].id].properties.status = S_ACTIVE

====
